---- MODULE Spec2Model ----
(***************************************************************************)
(* Model of the rank proxy in src/main.go: one gin handler                 *)
(* GET /rest/v1/rank/:region/:name/:tag in front of a process-wide cache   *)
(* (map[string]cacheEntry guarded by a sync.RWMutex, TTL 5 minutes) and a  *)
(* single upstream HTTP call.                                              *)
(*                                                                         *)
(* Each request is a goroutine; its position is req[r].pc.  Steps are cut  *)
(* at the points where goroutines can interleave: acquiring the read lock, *)
(* the body of getFromCache up to its deferred RUnlock, what the handler   *)
(* does with the result of the lookup, the upstream round trip, acquiring  *)
(* the write lock, the body of setCache up to its deferred Unlock, and     *)
(* what the handler does after setCache has returned.  Other requests and  *)
(* the clock can take steps between the release of a lock and the answer   *)
(* of the request that held it.                                            *)
(*                                                                         *)
(* Time is counted in minutes.  JSON numbers (float64) are fixed-point     *)
(* tenths: 679 stands for 67.9.                                            *)
(***************************************************************************)
EXTENDS Integers, Sequences, FiniteSets, TLC

VARIABLES cache, readers, writer, now, req, pool, upstream, horizon, lastWrite

vars == <<cache, readers, writer, now, req, pool, upstream, horizon, lastWrite>>

(* ------------------------------ bounds -------------------------------- *)

\* Number of requests (goroutines running the handler) in a behaviour.
MaxReq == 2

\* The clock runs from 0 to at most MaxTime minutes.
MaxTime == 6

ReqIds == 1..MaxReq

(* ------------------------- program constants -------------------------- *)

validRegions == {"eu", "na", "latam", "ap", "kr", "br"}

\* 5 * time.Minute, in minutes.
cacheTTL == 5

\* The length of a run in which no entry gets old enough to expire.
ShortTime == MaxTime - cacheTTL

\* Variant: the region is matched without regard to case.
isValidRegionAnyCase(region) ==
    region \in validRegions \cup {"EU", "NA", "LATAM", "AP", "KR", "BR"}

isValidRegion(region) == region \in validRegions

(* ------------------------------ JSON ---------------------------------- *)
\* A decoded JSON value (interface{}): a tagged record.  Objects
\* (map[string]interface{}) are records, so DOMAIN gives the keys present.

JStr(s) == [t |-> "string", s |-> s]
JNum(n) == [t |-> "number", n |-> n]
JObj(o) == [t |-> "object", o |-> o]

\* v, ok := m[key].(map[string]interface{})
IsObjectAt(m, key) == key \in DOMAIN m /\ m[key].t = "object"
\* v, ok := m[key].(string)
IsStringAt(m, key) == key \in DOMAIN m /\ m[key].t = "string"
\* v, ok := m[key].(float64)
IsFloatAt(m, key) == key \in DOMAIN m /\ m[key].t = "number"

\* Variant: the value is rounded to the nearest integer.
IntOfRounded(rr) ==
    IF rr >= 0 THEN (rr + 5) \div 10 ELSE -((-rr + 5) \div 10)

\* int(rr): conversion of a float64 to int truncates toward zero.
IntOf(rr) == IF rr >= 0 THEN rr \div 10 ELSE -((-rr) \div 10)

\* fmt.Sprintf("%s [%dRR]", rank, int(rr))
FormatMessage(rank, rr) == rank \o " [" \o ToString(IntOf(rr)) \o "RR]"

\* Variant: the tag is left out of the key.
CacheKeyWithoutTag(region, name, tag) == region \o ":" \o name

\* fmt.Sprintf("%s:%s:%s", region, name, tag)
CacheKeyOf(region, name, tag) == region \o ":" \o name \o ":" \o tag

(* ----------------------------- responses ------------------------------ *)

\* c.JSON(code, gin.H{"error": msg}): the client receives status `code`
\* and the JSON object {"error": msg}, except for the statuses for which
\* HTTP allows no response body (1xx, 204, 304): for those c.JSON writes
\* the status line and headers only.
ErrorJSON(code, msg) ==
    IF (code >= 100 /\ code <= 199) \/ code = 204 \/ code = 304
    THEN [kind |-> "empty", status |-> code]
    ELSE [kind |-> "error", status |-> code, error |-> msg]

\* c.JSON(http.StatusOK, gin.H{"message": ..., "latency:ms": ..., "cached": ...}).
\* "latency:ms" is the wall-clock time the handler took; the key is always
\* present and its value is not modelled.
SuccessJSON(msg, cached) ==
    [kind |-> "ok", status |-> 200, message |-> msg, cached |-> cached]

\* The handler returned without calling c.JSON.
NoResponse == [kind |-> "none"]

\* The handler has not returned yet.
Pending == [kind |-> "pending"]

\* Variant: the ok result of the float64 assertion is dropped on the cached
\* path, so rr is the zero value when the field is not a number.
RenderIgnoringOk(data, cached) ==
    LET currentData == data["current_data"].o IN
    IF ~IsStringAt(currentData, "currenttierpatched")
    THEN ErrorJSON(500, "Invalid rank data type")
    ELSE IF ~cached /\ ~IsFloatAt(currentData, "ranking_in_tier")
    THEN ErrorJSON(500, "Invalid RR data type")
    ELSE SuccessJSON(FormatMessage(currentData["currenttierpatched"].s,
                        IF IsFloatAt(currentData, "ranking_in_tier")
                        THEN currentData["ranking_in_tier"].n ELSE 0),
                     cached)

\* Variant: the cached path reports "cached": false.
RenderNeverCached(data, cached) ==
    LET currentData == data["current_data"].o IN
    IF ~IsStringAt(currentData, "currenttierpatched")
    THEN ErrorJSON(500, "Invalid rank data type")
    ELSE IF ~IsFloatAt(currentData, "ranking_in_tier")
    THEN ErrorJSON(500, "Invalid RR data type")
    ELSE SuccessJSON(FormatMessage(currentData["currenttierpatched"].s,
                                   currentData["ranking_in_tier"].n),
                     FALSE)

\* Lines 101-125 and 155-178: the two copies of the validation and
\* formatting block.  It is entered only when current_data is an object.
Render(data, cached) ==
    LET currentData == data["current_data"].o IN
    IF ~IsStringAt(currentData, "currenttierpatched")
    THEN ErrorJSON(500, "Invalid rank data type")
    ELSE IF ~IsFloatAt(currentData, "ranking_in_tier")
    THEN ErrorJSON(500, "Invalid RR data type")
    ELSE SuccessJSON(FormatMessage(currentData["currenttierpatched"].s,
                                   currentData["ranking_in_tier"].n),
                     cached)

(* ----------------------------- upstream ------------------------------- *)
\* What httpClient.Get and the JSON decoder can hand to the handler.

\* err != nil from httpClient.Get (connection failure or the 10 s timeout).
TransportFailure == [kind |-> "failure"]
\* A reply whose status is not 200.
StatusReply(code) == [kind |-> "status", status |-> code]
\* A 200 whose body json.Decoder cannot decode into a map.
UndecodableReply == [kind |-> "undecodable", status |-> 200]
\* A 200 whose body decodes to `result`.
DecodedReply(result) == [kind |-> "decoded", status |-> 200, result |-> result]

\* {"status":200,"data":{"name":"Foo","current_data":cd}}
WithCurrentData(cd) ==
    DecodedReply([status |-> JNum(2000),
                  data |-> JObj([name |-> JStr("Foo"), current_data |-> cd])])

\* {"status":200,"data":{"name":"Foo","current_data":
\*     {"currenttierpatched":"Gold 2","ranking_in_tier":45.0}}}
Gold45 ==
    WithCurrentData(JObj([currenttierpatched |-> JStr("Gold 2"),
                          ranking_in_tier |-> JNum(450)]))
\* ... "ranking_in_tier":67.9
Gold67 ==
    WithCurrentData(JObj([currenttierpatched |-> JStr("Gold 2"),
                          ranking_in_tier |-> JNum(679)]))
\* ... "ranking_in_tier":99.9
Gold99 ==
    WithCurrentData(JObj([currenttierpatched |-> JStr("Gold 2"),
                          ranking_in_tier |-> JNum(999)]))
\* ... "ranking_in_tier":-67.9
GoldMinus67 ==
    WithCurrentData(JObj([currenttierpatched |-> JStr("Gold 2"),
                          ranking_in_tier |-> JNum(-679)]))
\* ... "ranking_in_tier":-0.5
GoldMinusHalf ==
    WithCurrentData(JObj([currenttierpatched |-> JStr("Gold 2"),
                          ranking_in_tier |-> JNum(-5)]))
\* ... "ranking_in_tier":"45"
RRString ==
    WithCurrentData(JObj([currenttierpatched |-> JStr("Gold 2"),
                          ranking_in_tier |-> JStr("45")]))
\* ... "currenttierpatched":15
TierNumber ==
    WithCurrentData(JObj([currenttierpatched |-> JNum(150),
                          ranking_in_tier |-> JNum(450)]))
\* ... "currenttierpatched":15,"ranking_in_tier":"45"
BothWrong ==
    WithCurrentData(JObj([currenttierpatched |-> JNum(150),
                          ranking_in_tier |-> JStr("45")]))
\* ... "current_data":{"ranking_in_tier":45.0}
TierMissing ==
    WithCurrentData(JObj([ranking_in_tier |-> JNum(450)]))
\* ... "current_data":{"currenttierpatched":"Gold 2"}
RRMissing ==
    WithCurrentData(JObj([currenttierpatched |-> JStr("Gold 2")]))
\* ... "current_data":"n/a"
CurrentDataString == WithCurrentData(JStr("n/a"))
\* {"status":200,"data":{"name":"Foo"}}
NoCurrentData ==
    DecodedReply([status |-> JNum(2000), data |-> JObj([name |-> JStr("Foo")])])
\* {"status":404}
NoDataBody == DecodedReply([status |-> JNum(4040)])
\* {"status":200,"data":"n/a"}
DataString == DecodedReply([status |-> JNum(2000), data |-> JStr("n/a")])

\* The replies of the upstream in the main specification.
MainReplies ==
    { TransportFailure, UndecodableReply, StatusReply(503),
      NoDataBody, NoCurrentData, Gold45, RRString }

\* Every shape of the two fields the handler reads.
FieldReplies ==
    { Gold45, RRString, TierNumber, BothWrong, TierMissing, RRMissing,
      CurrentDataString, NoCurrentData, DataString }

\* Statuses other than 200, with and without a response body allowed.
StatusReplies ==
    { StatusReply(code) : code \in {101, 201, 204, 304, 404, 503} }
    \cup { Gold45 }

\* Two payloads and one failure.
FewReplies == { Gold45, Gold67, StatusReply(503) }

\* Whole, fractional and negative values of ranking_in_tier.
NumberReplies == { Gold45, Gold67, Gold99, GoldMinus67, GoldMinusHalf }

\* Two payloads, a failed status and a call that fails or times out.
FairReplies == FewReplies \cup { TransportFailure }

\* One payload and one failure.
TwoReplies == { Gold45, StatusReply(503) }

(* ------------------------------ requests ------------------------------ *)

Triple(region, name, tag) == [region |-> region, name |-> name, tag |-> tag]

\* Path parameters the clients send in the main specification.
MainPool == { Triple("eu", "Foo", "1234"), Triple("EU", "Foo", "1234") }

\* Names and tags that contain the delimiter of the cache key.
KeyPool ==
    { Triple("eu", "a:b", "c"), Triple("eu", "a", "b:c"),
      Triple("eu", "a", "c") }

\* The six listed regions and some that are not listed.
RegionPool ==
    { Triple(region, "Foo", "1234") :
        region \in {"eu", "na", "latam", "ap", "kr", "br", "EU", "us"} }

NoData == [nil |-> TRUE]
NoEntrySeen == [exists |-> FALSE]

IdleRequest ==
    [pc |-> "idle", region |-> "", name |-> "", tag |-> "",
     cacheKey |-> "", found |-> FALSE, cachedData |-> NoData,
     seen |-> NoEntrySeen, calls |-> 0,
     res |-> Pending, first |-> FALSE, data |-> NoData, wrote |-> FALSE,
     response |-> Pending]

EmptyCache == [k \in {} |-> NoData]

InitWith(p, u, h) ==
    /\ cache = EmptyCache
    /\ readers = {}
    /\ writer = {}
    /\ now = 0
    /\ req = [r \in ReqIds |-> IdleRequest]
    /\ pool = p
    /\ upstream = u
    /\ horizon = h
    /\ lastWrite = [k \in {} |-> NoData]

Init == InitWith(MainPool, MainReplies, MaxTime)
InitRace == InitWith(MainPool, FewReplies, MaxTime)
InitKeys == InitWith(KeyPool, TwoReplies, MaxTime)
InitRegions == InitWith(RegionPool, TwoReplies, ShortTime)
InitStatus == InitWith(MainPool, StatusReplies, ShortTime)
InitFields == InitWith(MainPool, FieldReplies, ShortTime)
InitNumbers == InitWith(MainPool, NumberReplies, ShortTime)
InitFair == InitWith(MainPool, FairReplies, ShortTime)

(* ------------------------------ actions ------------------------------- *)

\* Lines 85-98: read the path parameters, reject an unlisted region,
\* build the cache key.
Start(r) ==
    /\ req[r].pc = "idle"
    /\ \E p \in pool :
         req' = [req EXCEPT ![r] =
            IF ~isValidRegion(p.region)
            THEN [@ EXCEPT !.region = p.region, !.name = p.name, !.tag = p.tag,
                           !.response = ErrorJSON(400, "Invalid Region: " \o p.region),
                           !.pc = "done"]
            ELSE [@ EXCEPT !.region = p.region, !.name = p.name, !.tag = p.tag,
                           !.cacheKey = CacheKeyOf(p.region, p.name, p.tag),
                           !.pc = "getFromCache"]]
    /\ UNCHANGED <<cache, readers, writer, now, pool, upstream, horizon, lastWrite>>

\* Line 53: cacheMutex.RLock().
RLock(r) ==
    /\ req[r].pc = "getFromCache"
    /\ writer = {}
    /\ readers' = readers \cup {r}
    /\ req' = [req EXCEPT ![r].pc = "inGet"]
    /\ UNCHANGED <<cache, writer, now, pool, upstream, horizon, lastWrite>>

\* Variant: an entry exactly cacheTTL old still counts as fresh.
FoundInclusive(key) ==
    /\ key \in DOMAIN cache
    /\ now - cache[key].timestamp <= cacheTTL

\* Lines 56-61: the lookup under the read lock.
Found(key) ==
    /\ key \in DOMAIN cache
    /\ now - cache[key].timestamp < cacheTTL

\* Variant: a lookup that finds an expired entry deletes it.
LookupEvicting(r) ==
    /\ req[r].pc = "inGet"
    /\ readers' = readers \ {r}
    /\ LET key == req[r].cacheKey
           found == Found(key)
           cachedData == IF found THEN cache[key].data ELSE NoData
           seen == IF key \in DOMAIN cache
                   THEN [exists |-> TRUE, by |-> lastWrite[key].by]
                   ELSE NoEntrySeen
       IN /\ req' = [req EXCEPT ![r] =
               [@ EXCEPT !.found = found, !.cachedData = cachedData,
                         !.seen = seen, !.pc = "afterGet"]]
          /\ cache' = IF key \in DOMAIN cache /\ ~found
                      THEN [k \in DOMAIN cache \ {key} |-> cache[k]]
                      ELSE cache
    /\ UNCHANGED <<writer, now, pool, upstream, horizon, lastWrite>>

\* Variant: getFromCache releases the read lock only when it returns an
\* entry; on a miss the lock is still held when the handler goes on to the
\* upstream call.
LookupKeepingRLock(r) ==
    /\ req[r].pc = "inGet"
    /\ LET key == req[r].cacheKey
           found == Found(key)
           cachedData == IF found THEN cache[key].data ELSE NoData
           seen == IF key \in DOMAIN cache
                   THEN [exists |-> TRUE, by |-> lastWrite[key].by]
                   ELSE NoEntrySeen
       IN /\ readers' = IF found THEN readers \ {r} ELSE readers
          /\ req' = [req EXCEPT ![r] =
               [@ EXCEPT !.found = found, !.cachedData = cachedData,
                         !.seen = seen, !.pc = "afterGet"]]
    /\ UNCHANGED <<cache, writer, now, pool, upstream, horizon, lastWrite>>

\* Lines 54-61: the body of getFromCache and its deferred RUnlock.  The
\* function returns (entry.data, true) for a fresh entry and (nil, false)
\* otherwise; the read lock is released as it returns.
Lookup(r) ==
    /\ req[r].pc = "inGet"
    /\ readers' = readers \ {r}
    /\ LET key == req[r].cacheKey
           found == Found(key)
           cachedData == IF found THEN cache[key].data ELSE NoData
           seen == IF key \in DOMAIN cache
                   THEN [exists |-> TRUE, by |-> lastWrite[key].by]
                   ELSE NoEntrySeen
       IN req' = [req EXCEPT ![r] =
            [@ EXCEPT !.found = found, !.cachedData = cachedData,
                      !.seen = seen, !.pc = "afterGet"]]
    /\ UNCHANGED <<cache, writer, now, pool, upstream, horizon, lastWrite>>

\* The lookup returned an entry whose current_data is an object, so the
\* handler answers from it (lines 100-101).
AnswersFromCache(r) ==
    req[r].found /\ IsObjectAt(req[r].cachedData, "current_data")

\* Lines 100-128, after getFromCache has returned and with no lock held:
\* validate and format the cached payload and answer, or fall out of the
\* hit block and issue the upstream call.
HitPath(r) ==
    /\ req[r].pc = "afterGet"
    /\ req' = [req EXCEPT ![r] =
            IF AnswersFromCache(r)
            THEN [@ EXCEPT !.response = Render(req[r].cachedData, TRUE),
                           !.pc = "done"]
            ELSE [@ EXCEPT !.calls = @ + 1, !.pc = "call"]]
    /\ UNCHANGED <<cache, readers, writer, now, pool, upstream, horizon, lastWrite>>

\* Lines 138-140: c.JSON(res.StatusCode, gin.H{"error": fmt.Sprintf(
\* "API returned status code: %d", res.StatusCode)}).
UpstreamErrorResponse(res) ==
    ErrorJSON(res.status, "API returned status code: " \o ToString(res.status))

\* Variant: a transport failure is retried once before it is reported.
ReplyRetrying(r) ==
    /\ req[r].pc = "call"
    /\ \E res \in upstream :
         req' = [req EXCEPT ![r] =
            IF res.kind = "failure" /\ req[r].calls < 2
            THEN [@ EXCEPT !.calls = @ + 1]
            ELSE IF res.kind = "failure"
            THEN [@ EXCEPT !.res = res, !.pc = "done",
                    !.response = ErrorJSON(500, "Issue connecting to external API")]
            ELSE IF res.status # 200
            THEN [@ EXCEPT !.res = res, !.pc = "done",
                    !.response = ErrorJSON(res.status,
                        "API returned status code: " \o ToString(res.status))]
            ELSE IF res.kind = "undecodable"
            THEN [@ EXCEPT !.res = res, !.pc = "done",
                    !.response = ErrorJSON(500, "Failed to parse API response")]
            ELSE IF ~IsObjectAt(res.result, "data")
            THEN [@ EXCEPT !.res = res, !.pc = "done",
                    !.response = NoResponse]
            ELSE [@ EXCEPT !.res = res, !.data = res.result["data"].o,
                           !.pc = "setCache"]]
    /\ UNCHANGED <<cache, readers, writer, now, pool, upstream, horizon, lastWrite>>

\* No upstream reply has reached any request so far.
NoReplyYet == \A q \in ReqIds : req[q].res = Pending

\* Lines 128-152: the upstream reply arrives and is classified.  `first`
\* records whether it is the first reply to arrive at any request.
Reply(r) ==
    /\ req[r].pc = "call"
    /\ \E res \in upstream :
         req' = [req EXCEPT ![r] =
            IF res.kind = "failure"
            THEN [@ EXCEPT !.res = res, !.first = NoReplyYet, !.pc = "done",
                    !.response = ErrorJSON(500, "Issue connecting to external API")]
            ELSE IF res.status # 200
            THEN [@ EXCEPT !.res = res, !.first = NoReplyYet, !.pc = "done",
                    !.response = UpstreamErrorResponse(res)]
            ELSE IF res.kind = "undecodable"
            THEN [@ EXCEPT !.res = res, !.first = NoReplyYet, !.pc = "done",
                    !.response = ErrorJSON(500, "Failed to parse API response")]
            ELSE IF ~IsObjectAt(res.result, "data")
            THEN [@ EXCEPT !.res = res, !.first = NoReplyYet, !.pc = "done",
                    !.response = NoResponse]
            ELSE [@ EXCEPT !.res = res, !.first = NoReplyYet, !.data = res.result["data"].o,
                           !.pc = "setCache"]]
    /\ UNCHANGED <<cache, readers, writer, now, pool, upstream, horizon, lastWrite>>

\* Variant: the write lock is taken while readers are inside (a plain
\* mutex that readers do not take).
LockIgnoringReaders(r) ==
    /\ req[r].pc = "setCache"
    /\ writer = {}
    /\ writer' = {r}
    /\ req' = [req EXCEPT ![r].pc = "inSet"]
    /\ UNCHANGED <<cache, readers, now, pool, upstream, horizon, lastWrite>>

\* Line 65: cacheMutex.Lock().
Lock(r) ==
    /\ req[r].pc = "setCache"
    /\ writer = {}
    /\ readers = {}
    /\ writer' = {r}
    /\ req' = [req EXCEPT ![r].pc = "inSet"]
    /\ UNCHANGED <<cache, readers, now, pool, upstream, horizon, lastWrite>>

\* Variant: the write is skipped when the key already has a fresh entry
\* (the first of the racing writers wins).
PutIfStale(c, key, data, t) ==
    IF key \in DOMAIN c /\ t - c[key].timestamp < cacheTTL
    THEN c
    ELSE [k \in DOMAIN c \cup {key} |->
            IF k = key THEN [data |-> data, timestamp |-> t] ELSE c[k]]

\* Variant: a write also drops the entries of other keys that have expired.
PutPurging(c, key, data, t) ==
    [k \in {j \in DOMAIN c : t - c[j].timestamp < cacheTTL} \cup {key} |->
        IF k = key THEN [data |-> data, timestamp |-> t] ELSE c[k]]

\* Variant: an existing entry gets the new payload but keeps its timestamp.
PutKeepingTimestamp(c, key, data, t) ==
    [k \in DOMAIN c \cup {key} |->
        IF k = key
        THEN [data |-> data,
              timestamp |-> IF key \in DOMAIN c THEN c[key].timestamp ELSE t]
        ELSE c[k]]

\* Lines 68-71: cache[key] = cacheEntry{data, time.Now()}.
Put(c, key, data, t) ==
    [k \in DOMAIN c \cup {key} |->
        IF k = key THEN [data |-> data, timestamp |-> t] ELSE c[k]]

\* Variant: setCache returns without releasing the write lock.
StoreKeepingLock(r) ==
    /\ req[r].pc = "inSet"
    /\ cache' = Put(cache, req[r].cacheKey, req[r].data, now)
    /\ lastWrite' = [k \in DOMAIN lastWrite \cup {req[r].cacheKey} |->
                        IF k = req[r].cacheKey THEN [by |-> r, at |-> now]
                        ELSE lastWrite[k]]
    /\ req' = [req EXCEPT ![r] = [@ EXCEPT !.wrote = TRUE, !.pc = "afterSet"]]
    /\ UNCHANGED <<readers, writer, now, pool, upstream, horizon>>

\* Lines 66-71: the body of setCache and its deferred Unlock.  The write
\* lock is released as the function returns.
Store(r) ==
    /\ req[r].pc = "inSet"
    /\ writer' = {}
    /\ cache' = Put(cache, req[r].cacheKey, req[r].data, now)
    /\ lastWrite' = [k \in DOMAIN lastWrite \cup {req[r].cacheKey} |->
                        IF k = req[r].cacheKey THEN [by |-> r, at |-> now]
                        ELSE lastWrite[k]]
    /\ req' = [req EXCEPT ![r] = [@ EXCEPT !.wrote = TRUE, !.pc = "afterSet"]]
    /\ UNCHANGED <<readers, now, pool, upstream, horizon>>

\* Lines 155-180, after setCache has returned and with no lock held:
\* validate and format the payload just stored and answer, or fall off the
\* end of the handler when current_data is not an object.
MissPath(r) ==
    /\ req[r].pc = "afterSet"
    /\ req' = [req EXCEPT ![r] =
            IF IsObjectAt(req[r].data, "current_data")
            THEN [@ EXCEPT !.response = Render(req[r].data, FALSE),
                           !.pc = "done"]
            ELSE [@ EXCEPT !.response = NoResponse, !.pc = "done"]]
    /\ UNCHANGED <<cache, readers, writer, now, pool, upstream, horizon, lastWrite>>

\* The clock advances by one minute, until the run's horizon.
Tick ==
    /\ now < horizon
    /\ now' = now + 1
    /\ UNCHANGED <<cache, readers, writer, req, pool, upstream, horizon, lastWrite>>

Next ==
    \/ \E r \in ReqIds : Start(r)
    \/ \E r \in ReqIds : RLock(r)
    \/ \E r \in ReqIds : Lookup(r)
    \/ \E r \in ReqIds : HitPath(r)
    \/ \E r \in ReqIds : Reply(r)
    \/ \E r \in ReqIds : Lock(r)
    \/ \E r \in ReqIds : Store(r)
    \/ \E r \in ReqIds : MissPath(r)
    \/ Tick

Spec == Init /\ [][Next]_vars
SpecRace == InitRace /\ [][Next]_vars
SpecKeys == InitKeys /\ [][Next]_vars
SpecRegions == InitRegions /\ [][Next]_vars
SpecStatus == InitStatus /\ [][Next]_vars
SpecFields == InitFields /\ [][Next]_vars
SpecNumbers == InitNumbers /\ [][Next]_vars

\* Scheduling: a goroutine that can take a step eventually takes it.  The
\* mutex hands the lock to a waiting goroutine once it is free, the
\* upstream call returns or fails within httpClient's 10 s timeout, and
\* the code between these points does not block.  Nothing obliges a client
\* to send a request, nor the clock to have a last tick.
Fairness ==
    \A r \in ReqIds :
        /\ WF_vars(RLock(r))
        /\ WF_vars(Lookup(r))
        /\ WF_vars(HitPath(r))
        /\ WF_vars(Reply(r))
        /\ WF_vars(Lock(r))
        /\ WF_vars(Store(r))
        /\ WF_vars(MissPath(r))

FairSpec == InitFair /\ [][Next]_vars /\ Fairness

(* ------------------------------ claims -------------------------------- *)

Done(r) == req[r].pc = "done"

\* The response is the InvalidFieldType failure (HTTP 500) for one of the
\* two fields.
IsInvalidFieldType(resp) ==
    /\ resp.kind = "error"
    /\ resp.status = 500
    /\ resp.error \in {"Invalid rank data type", "Invalid RR data type"}

\* The payload has both fields with the expected types.
ValidPayload(d) ==
    /\ "current_data" \in DOMAIN d
    /\ d["current_data"].t = "object"
    /\ "currenttierpatched" \in DOMAIN d["current_data"].o
    /\ d["current_data"].o["currenttierpatched"].t = "string"
    /\ "ranking_in_tier" \in DOMAIN d["current_data"].o
    /\ d["current_data"].o["ranking_in_tier"].t = "number"

\* The payload has a ranking_in_tier and it is not a number.
RRWrongType(d) ==
    /\ "current_data" \in DOMAIN d
    /\ d["current_data"].t = "object"
    /\ "ranking_in_tier" \in DOMAIN d["current_data"].o
    /\ d["current_data"].o["ranking_in_tier"].t # "number"

\* C1: a request that finds a fresh entry for its key makes no upstream
\* call and answers 200 with cached=true and the message of the previous
\* answer served from that entry.
C1_HitsMakeNoUpstreamCall ==
    \A r \in ReqIds :
        req[r].found =>
            /\ req[r].calls = 0
            /\ req[r].res = Pending
            /\ Done(r) =>
                 /\ req[r].response.kind = "ok"
                 /\ req[r].response.cached = TRUE
                 /\ \A q \in ReqIds :
                      ( /\ req[q].found /\ Done(q)
                        /\ req[q].seen = req[r].seen
                        /\ req[q].response.kind = "ok" )
                      => req[q].response.message = req[r].response.message

\* C2: a lookup of a key last written at time T finds the entry exactly
\* when it runs at a time before T + cacheTTL; a key never written is not
\* found.
C2_TTLBoundary ==
    [][ \A r \in ReqIds :
          (req[r].pc = "inGet" /\ req'[r].pc # "inGet") =>
             ( req'[r].found <=>
                 /\ req[r].cacheKey \in DOMAIN lastWrite
                 /\ now < lastWrite[req[r].cacheKey].at + cacheTTL ) ]_vars

\* A request looked up a key whose entry, written by another request at
\* time T and not rewritten since, was exactly cacheTTL old, and missed.
C2_Witness ==
    \E r, q \in ReqIds :
        /\ req[r].pc = "call" /\ req[r].seen.exists /\ ~req[r].found
        /\ req[r].cacheKey \in DOMAIN cache
        /\ cache[req[r].cacheKey].timestamp + cacheTTL = now
        /\ lastWrite[req[r].cacheKey].by = req[r].seen.by
        /\ req[q].wrote /\ req[r].seen.by = q

\* C3: every request that uses a payload whose ranking_in_tier is not a
\* number, fetched or read from the cache, ends with InvalidFieldType and
\* has no other answer before; a read from the cache does so without an
\* upstream call; no success message is built from such a payload.
C3_TypeMismatchDeterministic ==
    \A r \in ReqIds :
        /\ (req[r].wrote /\ RRWrongType(req[r].data))
              => IF Done(r) THEN IsInvalidFieldType(req[r].response)
                            ELSE req[r].response = Pending
        /\ (req[r].found /\ RRWrongType(req[r].cachedData))
              => /\ IF Done(r) THEN IsInvalidFieldType(req[r].response)
                               ELSE req[r].response = Pending
                 /\ req[r].calls = 0
        /\ req[r].response.kind = "ok"
              => /\ req[r].wrote => ~RRWrongType(req[r].data)
                 /\ req[r].found => ~RRWrongType(req[r].cachedData)

\* One request fetched and stored such a payload and failed; a later one
\* read it from the cache and failed too.
C3_Witness ==
    \E r, q \in ReqIds :
        /\ Done(q) /\ Done(r)
        /\ req[q].wrote /\ RRWrongType(req[q].data)
        /\ IsInvalidFieldType(req[q].response)
        /\ req[r].found /\ req[r].seen.by = q
        /\ req[r].cachedData = req[q].data
        /\ IsInvalidFieldType(req[r].response)

\* The request has passed the region check.
Admitted(r) == req[r].pc \notin {"idle"} /\ req[r].cacheKey # ""

SameTriple(r, q) ==
    /\ req[r].region = req[q].region
    /\ req[r].name = req[q].name
    /\ req[r].tag = req[q].tag

\* C4: requests with different (region, name, tag) have different cache
\* keys, and no request is served from an entry that a request for another
\* triple stored.
C4_KeysCollisionFree ==
    \A r, q \in ReqIds :
        (Admitted(r) /\ Admitted(q) /\ ~SameTriple(r, q)) =>
            /\ req[r].cacheKey # req[q].cacheKey
            /\ ~(req[r].found /\ req[q].wrote /\ req[r].seen.by = q)

\* C5: a request that finds a fresh entry for its key answers 200 with a
\* message.
C5_HitPathAlwaysSucceeds ==
    \A r \in ReqIds :
        (req[r].found /\ Done(r)) =>
            /\ req[r].response.kind = "ok"
            /\ req[r].response.status = 200

\* C6: every finished request has exactly one outcome: a success response
\* or one JSON error body with one status.
C6_ExactlyOneOutcome ==
    \A r \in ReqIds :
        Done(r) => req[r].response.kind \in {"ok", "error"}

\* C7: a request that uses a payload, fetched or read from the cache, in
\* which currenttierpatched is missing or not a string, or ranking_in_tier
\* is missing or not a number, fails with InvalidFieldType (HTTP 500).
C7_ValidationOnBothPaths ==
    \A r \in ReqIds :
        /\ (req[r].wrote /\ ~ValidPayload(req[r].data) /\ Done(r))
              => IsInvalidFieldType(req[r].response)
        /\ (req[r].found /\ ~ValidPayload(req[r].cachedData) /\ Done(r))
              => IsInvalidFieldType(req[r].response)

\* C8: a request whose upstream call returned 200 with a valid payload
\* leaves that payload under its key and answers cached=false; a request
\* that then finds this entry makes no upstream call and answers the
\* message of that payload, the same as the first request's, with
\* cached=true.  For Gold 2 / 45.0 the message is "Gold 2 [45RR]".
C8_MissThenHit ==
    \A q \in ReqIds :
        (req[q].wrote /\ ValidPayload(req[q].data)) =>
            /\ IF Done(q)
               THEN /\ req[q].response.kind = "ok"
                    /\ req[q].response.status = 200
                    /\ req[q].response.cached = FALSE
                    /\ req[q].data = Gold45.result["data"].o
                          => req[q].response.message = "Gold 2 [45RR]"
               ELSE req[q].response = Pending
            /\ req[q].cacheKey \in DOMAIN cache
            /\ lastWrite[req[q].cacheKey].by = q
                  => cache[req[q].cacheKey].data = req[q].data
            /\ \A r \in ReqIds :
                 (req[r].found /\ req[r].seen.by = q) =>
                    /\ req[r].cacheKey = req[q].cacheKey
                    /\ req[r].cachedData = req[q].data
                    /\ req[r].calls = 0
                    /\ IF Done(r)
                       THEN /\ req[r].response.kind = "ok"
                            /\ req[r].response.status = 200
                            /\ req[r].response.cached = TRUE
                            /\ req[r].cachedData = Gold45.result["data"].o
                                  => req[r].response.message = "Gold 2 [45RR]"
                            /\ Done(q) => req[r].response.message
                                             = req[q].response.message
                       ELSE req[r].response = Pending

\* A miss answered "Gold 2 [45RR]" uncached, and the next request for the
\* key answered the same from the cache.
C8_Witness ==
    \E q, r \in ReqIds :
        /\ Done(q) /\ Done(r)
        /\ req[q].wrote /\ ~req[q].found
        /\ req[q].response = SuccessJSON("Gold 2 [45RR]", FALSE)
        /\ req[r].found /\ req[r].seen.by = q
        /\ req[r].response = SuccessJSON("Gold 2 [45RR]", TRUE)

\* C9: a request whose upstream call returned a status other than 200 has
\* ended, and the client has received that status with the body
\* {"error": "API returned status code: <code>"}.
C9_EveryStatusWithBody ==
    \A r \in ReqIds :
        req[r].res.kind = "status" =>
            /\ Done(r)
            /\ req[r].response.kind = "error"
            /\ req[r].response.status = req[r].res.status
            /\ req[r].response.error =
                  "API returned status code: " \o ToString(req[r].res.status)

\* C10: a request goes on to the cache lookup exactly when its region is
\* one of eu, na, latam, ap, kr, br; any other request is answered
\* 400 "Invalid Region: <region>" and never looks up or writes the cache
\* nor calls upstream.
C10_RegionGate ==
    \A r \in ReqIds :
        req[r].pc # "idle" =>
            IF req[r].region \in {"eu", "na", "latam", "ap", "kr", "br"}
            THEN /\ ~(req[r].response.kind = "error"
                      /\ req[r].response.status = 400)
                 /\ \/ req[r].pc \in {"getFromCache", "inGet", "afterGet"}
                    \/ req[r].found
                    \/ req[r].calls = 1
            ELSE /\ Done(r)
                 /\ req[r].response =
                       [kind |-> "error", status |-> 400,
                        error |-> "Invalid Region: " \o req[r].region]
                 /\ req[r].calls = 0 /\ req[r].res = Pending
                 /\ ~req[r].found /\ ~req[r].seen.exists /\ ~req[r].wrote
                 /\ r \notin readers \cup writer
                 /\ \A k \in DOMAIN lastWrite : lastWrite[k].by # r

\* "EU" was rejected with 400 while a request for "br" went through the
\* lookup, the upstream call and the cache write.
C10_Witness ==
    \E r, q \in ReqIds :
        /\ req[r].region = "EU" /\ Done(r)
        /\ req[r].response.status = 400
        /\ req[q].region = "br" /\ req[q].wrote
        /\ req[q].calls = 1

\* The ranking_in_tier of a valid payload, in tenths.
RROf(d) == d["current_data"].o["ranking_in_tier"].n

\* k is n/10 with the fraction dropped: the integer nearest to zero-ward.
IsTruncationOf(k, n) ==
    IF n >= 0 THEN k * 10 <= n /\ n < k * 10 + 10
              ELSE k * 10 >= n /\ n > k * 10 - 10

\* The message shows the payload's tier and its ranking_in_tier with the
\* fraction dropped.
ShowsTruncated(resp, d) ==
    \E k \in -100..100 :
        /\ IsTruncationOf(k, RROf(d))
        /\ resp.message =
              d["current_data"].o["currenttierpatched"].s
                 \o " [" \o ToString(k) \o "RR]"

\* C11: every success message shows ranking_in_tier truncated toward zero,
\* never rounded, whether the payload was just fetched or read from the
\* cache; 67.9 is shown as 67.
C11_Truncation ==
    \A r \in ReqIds :
        req[r].response.kind = "ok" =>
            /\ req[r].wrote => ShowsTruncated(req[r].response, req[r].data)
            /\ (req[r].found /\ ~req[r].wrote)
                  => ShowsTruncated(req[r].response, req[r].cachedData)
            /\ (req[r].wrote /\ RROf(req[r].data) = 679)
                  => req[r].response.message = "Gold 2 [67RR]"
            /\ (req[r].found /\ ~req[r].wrote
                   /\ RROf(req[r].cachedData) = 679)
                  => req[r].response.message = "Gold 2 [67RR]"

\* 67.9 was shown as 67 by the request that fetched it and by the request
\* that read it from the cache.
C11_Witness ==
    \E q, r \in ReqIds :
        /\ req[q].wrote /\ RROf(req[q].data) = 679
        /\ req[q].response = SuccessJSON("Gold 2 [67RR]", FALSE)
        /\ req[r].found /\ req[r].seen.by = q
        /\ req[r].response = SuccessJSON("Gold 2 [67RR]", TRUE)

\* C12: a request whose lookup finds no fresh entry issues its own upstream
\* call as its next step, whatever the other requests are doing or have
\* stored in between; a reply with status 200 and a data object always
\* leads on to setCache, and setCache leaves that request's payload under
\* its key.
C12_NoSingleFlight ==
    [][ \A r \in ReqIds :
          /\ (req[r].pc = "inGet" /\ req'[r].pc # "inGet" /\ ~req'[r].found)
                => /\ req'[r].pc = "afterGet"
                   /\ req'[r].calls = req[r].calls
          /\ (req[r].pc = "afterGet" /\ ~req[r].found /\ req'[r] # req[r])
                => /\ req'[r].pc = "call"
                   /\ req'[r].calls = req[r].calls + 1
          /\ (req[r].pc = "call" /\ req'[r].pc # "call"
                 /\ req'[r].res.kind = "decoded"
                 /\ "data" \in DOMAIN req'[r].res.result
                 /\ req'[r].res.result["data"].t = "object")
                => req'[r].pc = "setCache"
          /\ (req[r].pc = "inSet" /\ req'[r].pc # "inSet")
                => /\ req[r].cacheKey \in DOMAIN cache'
                   /\ cache'[req[r].cacheKey] =
                         [data |-> req[r].data, timestamp |-> now] ]_vars

\* Two upstream calls for the same key are in flight at once.
C12_Witness ==
    \E r, q \in ReqIds :
        /\ r # q
        /\ req[r].pc = "call" /\ req[q].pc = "call"
        /\ req[r].cacheKey = req[q].cacheKey
        /\ req[r].calls = 1 /\ req[q].calls = 1

\* C13: the entry of every key is the payload and the time of the most
\* recent completed setCache for that key, and keys never written have no
\* entry.
C13_LastWriteWins ==
    /\ DOMAIN cache = DOMAIN lastWrite
    /\ \A k \in DOMAIN cache :
          /\ req[lastWrite[k].by].wrote
          /\ req[lastWrite[k].by].cacheKey = k
          /\ cache[k] = [data |-> req[lastWrite[k].by].data,
                         timestamp |-> lastWrite[k].at]
          /\ cache[k].timestamp <= now

\* Two requests wrote the same key with different payloads; the one whose
\* upstream reply arrived first wrote last, so the entry carries the data
\* fetched earlier.
C13_Witness ==
    \E r, q \in ReqIds :
        /\ r # q
        /\ req[r].wrote /\ req[q].wrote
        /\ req[r].cacheKey = req[q].cacheKey
        /\ req[r].data # req[q].data
        /\ req[r].first
        /\ lastWrite[req[r].cacheKey].by = r
        /\ cache[req[r].cacheKey].data = req[r].data

\* The requests inside the critical section of getFromCache (between
\* RLock and RUnlock) and of setCache (between Lock and Unlock).
InGetFromCache == { r \in ReqIds : req[r].pc = "inGet" }
InSetCache == { r \in ReqIds : req[r].pc = "inSet" }

\* C14: either no request is inside setCache's critical section, or
\* exactly one is and none is inside getFromCache's; the lock holders are
\* exactly the requests inside the critical sections.
C14_ReaderWriterExclusion ==
    /\ \/ InSetCache = {}
       \/ Cardinality(InSetCache) = 1 /\ InGetFromCache = {}
    /\ readers = InGetFromCache
    /\ writer = InSetCache

\* Two requests are inside getFromCache's critical section together.
C14_Witness ==
    /\ Cardinality(InGetFromCache) >= 2
    /\ InSetCache = {}

\* C15: a request whose upstream call is in flight holds neither the read
\* lock nor the write lock, and only requests inside getFromCache or
\* setCache hold a lock, so the lock is free whenever no request is inside
\* one of the two.
C15_UpstreamCallOutsideLock ==
    /\ \A r \in ReqIds :
          req[r].pc = "call" => r \notin readers /\ r \notin writer
    /\ \A r \in readers \cup writer : req[r].pc \in {"inGet", "inSet"}
    /\ (\A r \in ReqIds : req[r].pc \notin {"inGet", "inSet"})
          => readers = {} /\ writer = {}

\* While one request waits for its upstream reply another one is inside
\* setCache.
C15_Witness ==
    \E r, q \in ReqIds :
        /\ req[r].pc = "call" /\ req[r].calls = 1
        /\ req[q].pc = "inSet" /\ writer = {q}
        /\ r \notin readers

\* C16: the cache starts empty; a key that has an entry keeps having one,
\* and the entry changes only in the step in which a request for that key
\* completes setCache.
C16_NeverPurged ==
    /\ cache = EmptyCache
    /\ [][ \A k \in DOMAIN cache :
             /\ k \in DOMAIN cache'
             /\ cache'[k] # cache[k] =>
                  \E r \in ReqIds :
                     /\ req[r].pc = "inSet" /\ req'[r].pc = "afterSet"
                     /\ req[r].cacheKey = k ]_vars

\* An entry older than cacheTTL is still in the map, unchanged since it was
\* written, and a request that looked its key up went on to the upstream
\* call.
C16_Witness ==
    \E r \in ReqIds :
        /\ req[r].pc = "call" /\ req[r].seen.exists /\ ~req[r].found
        /\ req[r].cacheKey \in DOMAIN cache
        /\ now - cache[req[r].cacheKey].timestamp >= cacheTTL
        /\ cache[req[r].cacheKey] =
              [data |-> req[req[r].seen.by].data,
               timestamp |-> lastWrite[req[r].cacheKey].at]

\* The upstream call of the request failed: no connection, a status other
\* than 200, or a body that does not decode.
UpstreamFailed(r) ==
    \/ req[r].res.kind \in {"failure", "undecodable"}
    \/ req[r].res.kind = "status" /\ req[r].res.status # 200

\* C17: a request issues at most one upstream call; after a transport
\* failure, a non-200 status, an undecodable body or a field-type failure
\* it has terminated with exactly one call made, and a terminated request
\* takes no further step.
C17_NoRetries ==
    /\ [](\A r \in ReqIds :
            /\ req[r].calls <= 1
            /\ UpstreamFailed(r) => Done(r) /\ req[r].calls = 1
            /\ (req[r].wrote /\ IsInvalidFieldType(req[r].response))
                  => Done(r) /\ req[r].calls = 1)
    /\ [][ \A r \in ReqIds : Done(r) => req'[r] = req[r] ]_vars

\* One request ended on a transport failure and another on a field-type
\* failure of a fetched payload, each after a single upstream call.
C17_Witness ==
    \E r, q \in ReqIds :
        /\ Done(r) /\ req[r].res = TransportFailure /\ req[r].calls = 1
        /\ req[r].response =
              [kind |-> "error", status |-> 500,
               error |-> "Issue connecting to external API"]
        /\ Done(q) /\ req[q].wrote /\ req[q].calls = 1
        /\ IsInvalidFieldType(req[q].response)

\* The request was answered from the cache.
ServedFromCache(r) ==
    /\ Done(r) /\ req[r].found /\ req[r].calls = 0

\* The body decoded but its `data` is absent or not an object.
NoDataObject(r) ==
    /\ req[r].res.kind = "decoded"
    /\ ~("data" \in DOMAIN req[r].res.result
         /\ req[r].res.result["data"].t = "object")

\* C18: every step of a request other than the completion of setCache
\* leaves every cache entry as it was, and a request that failed before
\* the store step, or was answered from the cache, has made no cache write.
C18_FailuresLeaveCacheUnchanged ==
    /\ [](\A r \in ReqIds :
            (UpstreamFailed(r) \/ NoDataObject(r) \/ ServedFromCache(r))
               => /\ Done(r)
                  /\ ~req[r].wrote
                  /\ \A k \in DOMAIN lastWrite : lastWrite[k].by # r)
    /\ [][ \A r \in ReqIds :
             (req'[r] # req[r] /\ req[r].pc # "inSet") => cache' = cache ]_vars

\* A request found an expired entry, called upstream and failed; the entry
\* is still the one the earlier request stored.
C18_Witness ==
    \E r \in ReqIds :
        /\ Done(r) /\ (UpstreamFailed(r) \/ NoDataObject(r))
        /\ req[r].seen.exists /\ ~req[r].found
        /\ req[r].cacheKey \in DOMAIN cache
        /\ lastWrite[req[r].cacheKey].by = req[r].seen.by
        /\ lastWrite[req[r].cacheKey].by # r
        /\ cache[req[r].cacheKey].data = req[req[r].seen.by].data
        /\ cache[req[r].cacheKey].timestamp = lastWrite[req[r].cacheKey].at

\* C19: under fair scheduling every request that has started eventually
\* completes.
C19_EveryRequestTerminates ==
    \A r \in ReqIds : (req[r].pc # "idle") ~> Done(r)

\* All requests have completed, each after its own upstream call and its
\* own cache write for one and the same key.
C19_Witness ==
    /\ \A r \in ReqIds : Done(r) /\ req[r].calls = 1 /\ req[r].wrote
    /\ \A r, q \in ReqIds : req[r].cacheKey = req[q].cacheKey
    /\ readers = {} /\ writer = {}

\* C20: a step changes or creates a cache entry only if it is the setCache
\* of a request that has not written before, and then only the entry under
\* the key string region:name:tag of that request; no step removes an
\* entry; a request that has written has only its answer left to give and
\* never enters setCache again.
C20_WritesOnlyOwnKey ==
    /\ [](\A r \in ReqIds : req[r].wrote => req[r].pc \in {"afterSet", "done"})
    /\ [][ /\ DOMAIN cache \subseteq DOMAIN cache'
           /\ \A r \in ReqIds :
                /\ (req[r].wrote /\ req'[r] # req[r])
                      => /\ req[r].pc = "afterSet" /\ req'[r].pc = "done"
                         /\ cache' = cache
                /\ req'[r] # req[r] =>
                     \A k \in DOMAIN cache' :
                        (k \notin DOMAIN cache \/ cache'[k] # cache[k]) =>
                           /\ req[r].pc = "inSet"
                           /\ ~req[r].wrote
                           /\ k = req[r].region \o ":" \o req[r].name
                                     \o ":" \o req[r].tag ]_vars

\* Two requests for different keys have each written their own entry, and
\* the entry written first is as its writer left it.
C20_Witness ==
    \E r, q \in ReqIds :
        /\ req[r].wrote /\ req[q].wrote
        /\ req[r].cacheKey # req[q].cacheKey
        /\ lastWrite[req[r].cacheKey].at < lastWrite[req[q].cacheKey].at
        /\ cache[req[r].cacheKey] =
              [data |-> req[r].data,
               timestamp |-> lastWrite[req[r].cacheKey].at]
        /\ cache[req[q].cacheKey].data = req[q].data

====
